---- MODULE Spec2Model ----
(***************************************************************************)
(* Model of check.py: extraction of derotation / XY-reset events from      *)
(* nightly logs, temporal clustering, and per-night aggregation.           *)
(*                                                                         *)
(* Time is counted in ticks; TicksPerSecond ticks make one second (Python  *)
(* datetimes have 10^6), so that gaps that are not a whole number of       *)
(* seconds exist.  Calendar days are integers.                             *)
(***************************************************************************)
EXTENDS Integers, Sequences, FiniteSets, TLC

VARIABLES pc, end, d, r, sci_count, night_dero, night_reset,
          no_log_days, low_sci_days, dero_rows, xy_rows, raised,
          dates, xy_counts, bottom, overlay,
          mode_counts, arg, ret, ret2

vars == <<pc, end, d, r, sci_count, night_dero, night_reset,
          no_log_days, low_sci_days, dero_rows, xy_rows, raised,
          dates, xy_counts, bottom, overlay,
          mode_counts, arg, ret, ret2>>

mainVars == <<end, d, r, sci_count, night_dero, night_reset,
              no_log_days, low_sci_days, dero_rows, xy_rows, raised,
              dates, xy_counts, bottom, overlay, mode_counts>>

-----------------------------------------------------------------------------
(* Bounds of the model *)

TicksPerSecond == 2
MaxSeconds == 8
MaxLen == 3
MaxLines == 6
MaxXYLines == 3
MaxNights == 2
MaxRows == 7

(* Program constants *)

CLUSTER_SECONDS == 5
START_DATE == 1
LOW_SCIENCE == 5
OK_STATUS == 200
MODE_WINDOW == 5
HEADER_ROWS == 2

-----------------------------------------------------------------------------
(* Helpers *)

Sec(s) == s * TicksPerSecond

MaxTime == Sec(MaxSeconds)

Times == 0..MaxTime

Min(a, b) == IF a < b THEN a ELSE b

Max(a, b) == IF a > b THEN a ELSE b

SeqsUpTo(S, n) == UNION {[1..k -> S] : k \in 0..n}

Range(s) == {s[i] : i \in DOMAIN s}

-----------------------------------------------------------------------------
(* cluster_events *)

RECURSIVE Insert(_, _)
Insert(t, s) ==
    IF s = <<>> THEN <<t>>
    ELSE IF t < Head(s) THEN <<t>> \o s
    ELSE <<Head(s)>> \o Insert(t, Tail(s))

\* the list left in arrival order
unsorted(times) == times

RECURSIVE sorted(_)
sorted(times) ==
    IF times = <<>> THEN <<>>
    ELSE Insert(Head(times), sorted(Tail(times)))

\* a gap of exactly CLUSTER_SECONDS taken as a new cluster
GapExceedsGE(t, last) == (t - last) >= CLUSTER_SECONDS * TicksPerSecond

\* (t - clustered[-1]).total_seconds() > CLUSTER_SECONDS, in ticks
GapExceeds(t, last) == (t - last) > CLUSTER_SECONDS * TicksPerSecond

\* each burst represented by its latest timestamp
RECURSIVE LatestLoop(_, _, _)
LatestLoop(clustered, first, rest) ==
    IF rest = <<>> THEN clustered
    ELSE IF GapExceeds(Head(rest), first)
         THEN LatestLoop(Append(clustered, Head(rest)), Head(rest), Tail(rest))
         ELSE LatestLoop([clustered EXCEPT ![Len(clustered)] = Head(rest)],
                         first, Tail(rest))

ClusterLoopLatest(clustered, rest) ==
    LatestLoop(clustered, clustered[Len(clustered)], rest)

RECURSIVE ClusterLoop(_, _)
ClusterLoop(clustered, rest) ==
    IF rest = <<>> THEN clustered
    ELSE IF GapExceeds(Head(rest), clustered[Len(clustered)])
         THEN ClusterLoop(Append(clustered, Head(rest)), Tail(rest))
         ELSE ClusterLoop(clustered, Tail(rest))

\* each timestamp compared with the previous raw timestamp
RECURSIVE PrevRawLoop(_, _, _)
PrevRawLoop(clustered, prev, rest) ==
    IF rest = <<>> THEN clustered
    ELSE IF GapExceeds(Head(rest), prev)
         THEN PrevRawLoop(Append(clustered, Head(rest)), Head(rest), Tail(rest))
         ELSE PrevRawLoop(clustered, Head(rest), Tail(rest))

cluster_events_prev_raw(times) ==
    IF times = <<>> THEN <<>>
    ELSE LET s == sorted(times)
         IN  PrevRawLoop(<<s[1]>>, s[1], Tail(s))

cluster_events(times) ==
    IF times = <<>> THEN <<>>
    ELSE LET s == sorted(times)
         IN  ClusterLoop(<<s[1]>>, Tail(s))

-----------------------------------------------------------------------------
(* parse_schedule_poller *)

\* A line of schedule_poller.log:
\*   marker : "Derotation occurred" in line
\*   tok    : datetime.fromisoformat(line.split()[0]), BAD when it raises
\*   mode   : group(1) of re.search("Instrument mode\s*=\s*(\w+)", line),
\*            NoMode when there is no match
BAD == -1

NoMode == "no match"

Return(v) == [exc |-> "none", val |-> v]

Raise(e) == [exc |-> e, val |-> <<>>]

RECURSIVE ModeScan(_, _, _)
ModeScan(lines, j, stop) ==
    IF j >= stop THEN "UNKNOWN"
    ELSE IF lines[j].mode # NoMode THEN lines[j].mode
    ELSE ModeScan(lines, j + 1, stop)

\* for j in range(i, min(i + 5, len(lines)))   (indices here start at 1)
\* the window one line too long
FindModeSixLines(lines, i) ==
    ModeScan(lines, i, Min(i + MODE_WINDOW + 1, Len(lines) + 1))

FindMode(lines, i) ==
    ModeScan(lines, i, Min(i + MODE_WINDOW, Len(lines) + 1))

RECURSIVE SchedLoop(_, _, _)
SchedLoop(lines, i, derotations) ==
    IF i > Len(lines) THEN Return(derotations)
    ELSE IF lines[i].marker
         THEN IF lines[i].tok = BAD
              THEN Raise("ValueError")
              ELSE SchedLoop(lines, i + 1,
                     Append(derotations, <<lines[i].tok, FindMode(lines, i)>>))
         ELSE SchedLoop(lines, i + 1, derotations)

parse_schedule_poller(lines) == SchedLoop(lines, 1, <<>>)

-----------------------------------------------------------------------------
(* parse_xyslides *)

\* A line of xyslides2ports.log:
\*   word : the word of the line that may spell "reset"
\*   tok  : datetime.fromisoformat(line.split()[0]); BAD when it raises,
\*          NoToken when line.split() is empty
NoToken == -2

Lower(w) ==
    CASE w = "RESET" -> "reset"
      [] w = "Reset" -> "reset"
      [] w = "MOVE"  -> "move"
      [] OTHER       -> w

\* the match made case-sensitive
ResetMatchExact(line) == line.word = "reset"

\* re.search(r"reset", line, re.IGNORECASE)
ResetMatch(line) == Lower(line.word) = "reset"

RECURSIVE XYLoop(_, _)
XYLoop(lines, resets) ==
    IF lines = <<>> THEN Return(resets)
    ELSE LET line == Head(lines)
         IN  IF ResetMatch(line)
             THEN IF line.tok = NoToken THEN XYLoop(Tail(lines), resets)
                  ELSE IF line.tok = BAD THEN XYLoop(Tail(lines), resets)
                  ELSE XYLoop(Tail(lines), Append(resets, line.tok))
             ELSE XYLoop(Tail(lines), resets)

parse_xyslides(lines) == XYLoop(lines, <<>>)

-----------------------------------------------------------------------------
(* science_count and fetch_and_save *)

None == -1

\* The HTTP response for the nightly obs-log page:
\*   status : HTTP status code
\*   fails  : requests.get or the HTML parse raises
\*   table  : soup.find('table') is not None
\*   rows   : for each <tr> of the table, whether one of its cells is "SCIENCE"
RECURSIVE CountScience(_)
CountScience(rows) ==
    IF rows = <<>> THEN 0
    ELSE (IF Head(rows) THEN 1 ELSE 0) + CountScience(Tail(rows))

science_count(page) ==
    IF page.fails THEN None
    ELSE IF page.status # OK_STATUS THEN None
    ELSE IF ~page.table THEN 0
    ELSE CountScience(SubSeq(page.rows, HEADER_ROWS + 1, Len(page.rows)))

\* sci_count < 5
LowScienceLE(c) == c <= LOW_SCIENCE

LowScience(c) == c < LOW_SCIENCE

\* no obs-log page requested yet
NoResponse == [status |-> 0, fails |-> FALSE, table |-> FALSE]

\* The outcome of requests.get + raise_for_status for a log file
fetch_and_save(resp) ==
    CASE resp.kind = "ok"               -> TRUE
      [] resp.kind = "HTTPError"        -> FALSE
      [] resp.kind = "RequestException" -> FALSE

\* ts.isoformat(): the fraction is printed only when it is not zero
isoformat(t) ==
    IF t % TicksPerSecond = 0
    THEN <<t \div TicksPerSecond>>
    ELSE <<t \div TicksPerSecond, t % TicksPerSecond>>

\* for d in daterange(start, end): the days start..end, ascending
daterange(start_date, end_date) ==
    [i \in 1..Max(end_date - start_date + 1, 0) |-> start_date + i - 1]

-----------------------------------------------------------------------------
(* main: dictionaries *)

EmptyMap == [k \in {} |-> 0]

Get(f, k, default) == IF k \in DOMAIN f THEN f[k] ELSE default

Put(f, k, v) == [x \in (DOMAIN f) \cup {k} |-> IF x = k THEN v ELSE f[x]]

\* times_by_mode: the keys in insertion order
RECURSIVE ModeOrder(_, _)
ModeOrder(deros, seen) ==
    IF deros = <<>> THEN seen
    ELSE IF Head(deros)[2] \in Range(seen)
         THEN ModeOrder(Tail(deros), seen)
         ELSE ModeOrder(Tail(deros), Append(seen, Head(deros)[2]))

\* the timestamps of every mode together
RECURSIVE TimesOfAll(_, _)
TimesOfAll(deros, mode) ==
    IF deros = <<>> THEN <<>>
    ELSE <<Head(deros)[1]>> \o TimesOfAll(Tail(deros), mode)

\* times_by_mode[mode]
RECURSIVE TimesOf(_, _)
TimesOf(deros, mode) ==
    IF deros = <<>> THEN <<>>
    ELSE IF Head(deros)[2] = mode
         THEN <<Head(deros)[1]>> \o TimesOf(Tail(deros), mode)
         ELSE TimesOf(Tail(deros), mode)

\* for ts in clustered: writer.writerow(...)
DeroRows(day, clustered, mode) ==
    [i \in 1..Len(clustered) |-> <<day, isoformat(clustered[i]), mode>>]

XYRows(day, clustered) ==
    [i \in 1..Len(clustered) |-> <<day, isoformat(clustered[i])>>]

\* for mode, times in times_by_mode.items(): ...
RECURSIVE DeroLoop(_, _, _, _, _)
DeroLoop(modes, deros, day, nd, rows) ==
    IF modes = <<>> THEN [night_dero |-> nd, rows |-> rows]
    ELSE LET mode      == Head(modes)
             clustered == cluster_events(TimesOf(deros, mode))
             byMode    == Get(nd, day, EmptyMap)
             nd2       == Put(nd, day,
                              Put(byMode, mode,
                                  Get(byMode, mode, 0) + Len(clustered)))
         IN  DeroLoop(Tail(modes), deros, day, nd2,
                      rows \o DeroRows(day, clustered, mode))

\* if deros: ...
TallyDeros(deros, day, nd, rows) ==
    IF deros = <<>> THEN [night_dero |-> nd, rows |-> rows]
    ELSE DeroLoop(ModeOrder(deros, <<>>), deros, day, nd, rows)

-----------------------------------------------------------------------------
(* Inputs of a run *)

SLine(marker, tok, mode) == [marker |-> marker, tok |-> tok, mode |-> mode]

XLine(word, tok) == [word |-> word, tok |-> tok]

\* derotations at 0 s (X), 3 s (X), 10 s (mode Y on the following line)
ExampleLog ==
    <<SLine(TRUE, Sec(0), "X"), SLine(TRUE, Sec(3), "X"),
      SLine(TRUE, Sec(10), NoMode), SLine(FALSE, BAD, "Y")>>

\* two derotations at the same instant, in different modes
SameTimeLog == <<SLine(TRUE, Sec(1), "X"), SLine(TRUE, Sec(1), "Y")>>

\* a good marker line, then one whose first token is not a timestamp
CorruptLog == <<SLine(TRUE, Sec(0), "X"), SLine(TRUE, BAD, NoMode)>>

SchedLogs == {ExampleLog, SameTimeLog, CorruptLog}

\* resets at 2 s, 4 s, 8 s and a reset line without a timestamp
BurstLog ==
    <<XLine("reset", Sec(2)), XLine("RESET", Sec(4)),
      XLine("Reset", BAD), XLine("reset", Sec(8))>>

QuietLog == <<XLine("move", Sec(1))>>

XYLogs == {BurstLog, QuietLog}

Responses(logs) ==
    {[kind |-> "ok", content |-> f] : f \in logs}
      \cup {[kind |-> "HTTPError", content |-> <<>>],
            [kind |-> "RequestException", content |-> <<>>]}

Pages ==
    {[status |-> 404, fails |-> FALSE, table |-> FALSE, rows |-> <<>>],
     [status |-> OK_STATUS, fails |-> TRUE, table |-> FALSE, rows |-> <<>>],
     [status |-> OK_STATUS, fails |-> FALSE, table |-> FALSE, rows |-> <<>>]}
      \cup {[status |-> OK_STATUS, fails |-> FALSE, table |-> TRUE, rows |-> rs] :
              rs \in SeqsUpTo(BOOLEAN, MaxRows)}

-----------------------------------------------------------------------------
(* main *)

MainInit ==
    /\ d = START_DATE
    /\ r = NoResponse
    /\ sci_count = None
    /\ night_dero = EmptyMap
    /\ night_reset = EmptyMap
    /\ no_log_days = <<>>
    /\ low_sci_days = <<>>
    /\ dero_rows = <<>>
    /\ xy_rows = <<>>
    /\ raised = "none"
    /\ dates = <<>>
    /\ xy_counts = <<>>
    /\ bottom = <<>>
    /\ overlay = <<>>
    /\ mode_counts = EmptyMap

\* start = START_DATE; end = today (UTC), possibly before START_DATE
Init ==
    /\ pc = "start"
    /\ end \in (START_DATE - 1)..(START_DATE + MaxNights - 1)
    /\ MainInit
    /\ arg = <<>> /\ ret = <<>> /\ ret2 = <<>>

\* position of the loop after the body for day `day`
NextDay(day) == IF day + 1 <= end THEN "obslog" ELSE "plot"

\* open both CSV files, write the header rows, enter the loop
Start ==
    /\ pc = "start"
    /\ dero_rows' = <<<<"Date", "Time", "InstrumentMode">>>>
    /\ xy_rows' = <<<<"Date", "Time">>>>
    /\ d' = START_DATE
    /\ pc' = IF START_DATE <= end THEN "obslog" ELSE "plot"
    /\ UNCHANGED <<end, r, sci_count, night_dero, night_reset, no_log_days,
                   low_sci_days, raised, dates, xy_counts, bottom, overlay,
                   mode_counts, arg, ret, ret2>>

\* sci_count = science_count(d) and the two flags of the night
CheckObsLog ==
    /\ pc = "obslog"
    /\ \E page \in Pages :
         LET c == science_count(page)
         IN  /\ r' = [status |-> page.status, fails |-> page.fails,
                       table |-> page.table]
             /\ sci_count' = c
             /\ IF c = None
                THEN /\ no_log_days' = Append(no_log_days, TRUE)
                     /\ low_sci_days' = Append(low_sci_days, FALSE)
                ELSE /\ no_log_days' = Append(no_log_days, FALSE)
                     /\ low_sci_days' = Append(low_sci_days, LowScience(c))
    /\ pc' = "sched"
    /\ UNCHANGED <<end, d, night_dero, night_reset, dero_rows, xy_rows,
                   raised, dates, xy_counts, bottom, overlay, mode_counts,
                   arg, ret, ret2>>

\* fetch, parse and tally schedule_poller.log of day d; an exception of the
\* parser is caught nowhere and ends the run
ProcessSched ==
    /\ pc = "sched"
    /\ \E resp \in Responses(SchedLogs) :
         IF fetch_and_save(resp)
         THEN LET deros == parse_schedule_poller(resp.content)
              IN  IF deros.exc # "none"
                  THEN /\ raised' = deros.exc
                       /\ pc' = "crashed"
                       /\ UNCHANGED <<night_dero, dero_rows>>
                  ELSE LET t == TallyDeros(deros.val, d, night_dero, dero_rows)
                       IN  /\ night_dero' = t.night_dero
                           /\ dero_rows' = t.rows
                           /\ pc' = "xy"
                           /\ UNCHANGED raised
         ELSE /\ pc' = "xy"
              /\ UNCHANGED <<night_dero, dero_rows, raised>>
    /\ UNCHANGED <<end, d, r, sci_count, night_reset, no_log_days, low_sci_days,
                   xy_rows, dates, xy_counts, bottom, overlay, mode_counts,
                   arg, ret, ret2>>

\* fetch, parse and tally xyslides2ports.log of day d, then the next day
ProcessXY ==
    /\ pc = "xy"
    /\ \E resp \in Responses(XYLogs) :
         IF fetch_and_save(resp)
         THEN LET resets    == parse_xyslides(resp.content)
                  clustered == cluster_events(resets.val)
              IN  /\ night_reset' =
                       Put(night_reset, d, Get(night_reset, d, 0) + Len(clustered))
                  /\ xy_rows' = xy_rows \o XYRows(d, clustered)
         ELSE UNCHANGED <<night_reset, xy_rows>>
    /\ d' = d + 1
    /\ pc' = NextDay(d)
    /\ UNCHANGED <<end, r, sci_count, night_dero, no_log_days, low_sci_days,
                   dero_rows, raised, dates, xy_counts, bottom, overlay,
                   mode_counts, arg, ret, ret2>>

RECURSIVE SumOver(_, _)
SumOver(S, f) ==
    IF S = {} THEN 0
    ELSE LET m == CHOOSE x \in S : TRUE
         IN  Get(f, m, 0) + SumOver(S \ {m}, f)

\* the data of the two bar charts
Plot ==
    /\ pc = "plot"
    /\ LET ds    == daterange(START_DATE, end)
           xy    == [x \in DOMAIN ds |-> Get(night_reset, ds[x], 0)]
           modes == UNION {DOMAIN night_dero[k] : k \in DOMAIN night_dero}
           btm   == [x \in DOMAIN ds |->
                       SumOver(modes, Get(night_dero, ds[x], EmptyMap))]
       IN  /\ dates' = ds
           /\ xy_counts' = xy
           /\ mode_counts' =
                [m \in modes |->
                   [x \in DOMAIN ds |->
                      Get(Get(night_dero, ds[x], EmptyMap), m, 0)]]
           /\ bottom' = btm
           /\ overlay' =
                [x \in 1..Min(Len(no_log_days), Len(low_sci_days)) |->
                   IF no_log_days[x]
                   THEN [color |-> "red", xy |-> Max(xy[x], 1),
                         dero |-> Max(btm[x], 1)]
                   ELSE IF low_sci_days[x]
                   THEN [color |-> "green", xy |-> Max(xy[x], 1),
                         dero |-> Max(btm[x], 1)]
                   ELSE [color |-> "none", xy |-> 0, dero |-> 0]]
    /\ pc' = "done"
    /\ UNCHANGED <<end, d, r, sci_count, night_dero, night_reset, no_log_days,
                   low_sci_days, dero_rows, xy_rows, raised, arg, ret, ret2>>

Next == Start \/ CheckObsLog \/ ProcessSched \/ ProcessXY \/ Plot

Spec == Init /\ [][Next]_vars

-----------------------------------------------------------------------------
(* cluster_events applied to every short list of timestamps *)

InitCluster ==
    /\ pc = "call cluster_events"
    /\ arg \in SeqsUpTo(Times, MaxLen)
    /\ ret = <<>> /\ ret2 = <<>>
    /\ end = START_DATE
    /\ MainInit

CallCluster ==
    /\ pc = "call cluster_events"
    /\ ret' = cluster_events(arg)
    /\ pc' = "clustered"
    /\ UNCHANGED <<mainVars, arg, ret2>>

\* the representatives fed back in
CallClusterAgain ==
    /\ pc = "clustered"
    /\ ret2' = cluster_events(ret)
    /\ pc' = "reclustered"
    /\ UNCHANGED <<mainVars, arg, ret>>

NextCluster == CallCluster \/ CallClusterAgain

SpecCluster == InitCluster /\ [][NextCluster]_vars

-----------------------------------------------------------------------------
(* parse_schedule_poller applied to every short log *)

SchedLineKinds ==
    {SLine(FALSE, BAD, NoMode), SLine(FALSE, BAD, "X"), SLine(FALSE, BAD, "Y"),
     SLine(TRUE, Sec(1), NoMode), SLine(TRUE, Sec(1), "X"),
     SLine(TRUE, BAD, NoMode)}

InitSched ==
    /\ pc = "call parse_schedule_poller"
    /\ arg \in SeqsUpTo(SchedLineKinds, MaxLines)
    /\ ret = <<>> /\ ret2 = <<>>
    /\ end = START_DATE
    /\ MainInit

CallParseSched ==
    /\ pc = "call parse_schedule_poller"
    /\ ret' = parse_schedule_poller(arg)
    /\ pc' = "parsed schedule_poller"
    /\ UNCHANGED <<mainVars, arg, ret2>>

NextSched == CallParseSched

SpecSched == InitSched /\ [][NextSched]_vars

-----------------------------------------------------------------------------
(* parse_xyslides applied to every short log *)

XYLineKinds ==
    {XLine(w, t) : w \in {"reset", "RESET", "Reset", "move"},
                   t \in {Sec(1), Sec(7), BAD}}
      \cup {XLine("", NoToken)}

InitXY ==
    /\ pc = "call parse_xyslides"
    /\ arg \in SeqsUpTo(XYLineKinds, MaxXYLines)
    /\ ret = <<>> /\ ret2 = <<>>
    /\ end = START_DATE
    /\ MainInit

CallParseXY ==
    /\ pc = "call parse_xyslides"
    /\ ret' = parse_xyslides(arg)
    /\ pc' = "parsed xyslides"
    /\ UNCHANGED <<mainVars, arg, ret2>>

NextXY == CallParseXY

SpecXY == InitXY /\ [][NextXY]_vars

-----------------------------------------------------------------------------
(* the derotation tally of one night applied to every short event list *)

DeroEvents == {<<Sec(s), m>> : s \in {0, 3, 6, 10}, m \in {"X", "Y"}}

InitDero ==
    /\ pc = "call tally"
    /\ arg \in SeqsUpTo(DeroEvents, MaxLen)
    /\ ret = <<>> /\ ret2 = <<>>
    /\ end = START_DATE
    /\ MainInit

CallTally ==
    /\ pc = "call tally"
    /\ ret' = TallyDeros(arg, START_DATE, EmptyMap, <<>>)
    /\ pc' = "tallied"
    /\ UNCHANGED <<mainVars, arg, ret2>>

NextDero == CallTally

SpecDero == InitDero /\ [][NextDero]_vars

-----------------------------------------------------------------------------
(* Properties of cluster_events (SpecCluster) *)

Threshold == Sec(CLUSTER_SECONDS)

SetMin(S) == CHOOSE x \in S : \A y \in S : x <= y

SetMax(S) == CHOOSE x \in S : \A y \in S : x >= y

Clustered == pc \in {"clustered", "reclustered"}

StrictlyAscending(s) == \A i \in 1..(Len(s) - 1) : s[i] < s[i + 1]

\* the representative in force when a timestamp t that is not the earliest
\* is examined: the latest representative before t
LastRepBefore(t) == SetMax({x \in Range(ret) : x < t})

\* C1: a timestamp becomes a representative exactly when it is the earliest
\* one or lies strictly more than 5 s after the last accepted representative;
\* so two timestamps exactly 5 s apart give one representative and two
\* timestamps more than 5 s apart give two.
C1_ThresholdAgainstRepresentative ==
    (Clustered /\ arg # <<>>) =>
        /\ StrictlyAscending(ret)
        /\ Range(ret) \subseteq Range(arg)
        /\ SetMin(Range(arg)) \in Range(ret)
        /\ \A t \in Range(arg) \ {SetMin(Range(arg))} :
               t \in Range(ret) <=> (t - LastRepBefore(t) > Threshold)
        /\ Len(arg) = 2 =>
               LET lo == Min(arg[1], arg[2])
                   hi == Max(arg[1], arg[2])
               IN  /\ (hi - lo = Threshold) => ret = <<lo>>
                   /\ (hi - lo > Threshold) => ret = <<lo, hi>>

C1_Witness ==
    /\ pc = "clustered"
    /\ Len(arg) = 2
    /\ arg[2] - arg[1] = Threshold
    /\ Len(ret) = 1

\* consecutive sorted timestamps of the input are each 4 s apart
FourSecondChain ==
    /\ arg # <<>>
    /\ LET s == sorted(arg)
       IN  \A i \in 1..(Len(s) - 1) : s[i + 1] - s[i] = Sec(4)

\* C2 as stated: a chain of timestamps each 4 s apart gives a single
\* representative whatever its length and span.
C2_ChainCollapsesToOne ==
    (Clustered /\ FourSecondChain) => Len(ret) = 1

\* C2 as amended: of a chain of timestamps each 4 s apart the 1st, 3rd,
\* 5th, ... are the representatives; there is a single representative only
\* when the chain has at most two timestamps.
C2_ChainKeepsEverySecond ==
    (Clustered /\ FourSecondChain) =>
        LET s == sorted(arg)
        IN  /\ Len(ret) = (Len(arg) + 1) \div 2
            /\ \A k \in DOMAIN ret : ret[k] = s[2 * k - 1]
            /\ (Len(ret) = 1) <=> (Len(arg) <= 2)

C2_Witness ==
    /\ pc = "clustered"
    /\ FourSecondChain
    /\ Len(arg) = 3
    /\ Len(ret) = 2

\* C4: the representatives are strictly ascending timestamps of the input,
\* the first one is the earliest timestamp, and every timestamp of the input
\* belongs to the burst of exactly one representative: it is at or after that
\* representative, at most 5 s after it, and before the next representative.
C4_EarliestRepresentative ==
    /\ cluster_events(<<Sec(0), Sec(1), Sec(3), Sec(20)>>) = <<Sec(0), Sec(20)>>
    /\ Clustered =>
        /\ StrictlyAscending(ret)
        /\ Range(ret) \subseteq Range(arg)
        /\ (arg = <<>>) => (ret = <<>>)
        /\ (Len(arg) = 1) => (ret = arg)
        /\ arg # <<>> => ret[1] = SetMin(Range(arg))
        /\ \A t \in Range(arg) :
             \E i \in DOMAIN ret :
                /\ ret[i] <= t
                /\ t - ret[i] <= Threshold
                /\ i < Len(ret) => t < ret[i + 1]
                /\ \A j \in DOMAIN ret : (ret[j] <= t) => j <= i

C4_Witness ==
    /\ pc = "clustered"
    /\ Len(arg) = 3
    /\ Len(ret) = 2
    /\ arg[1] > arg[2]
    /\ \E t \in Range(arg) : t \notin Range(ret)

\* C5: clustering the representatives again gives the same representatives.
C5_Idempotent == (pc = "reclustered") => (ret2 = ret)

C5_Witness ==
    /\ pc = "reclustered"
    /\ Len(arg) = 3
    /\ Len(ret) = 2
    /\ ret2 = ret

-----------------------------------------------------------------------------
(* Properties of the derotation tally of one night (SpecDero) *)

ModesIn(deros) == {deros[i][2] : i \in DOMAIN deros}

\* the timestamps of the events of one mode, in the order of the log
ModeTimes(deros, m) ==
    LET sel == SelectSeq(deros, LAMBDA e : e[2] = m)
    IN  [i \in DOMAIN sel |-> sel[i][1]]

RowsOfMode(rows, m) == SelectSeq(rows, LAMBDA row : row[3] = m)

\* C6: the events of a night are partitioned by mode before clustering: the
\* count of a mode is the number of clusters among the timestamps of that
\* mode alone, every mode that occurs keeps at least one representative of
\* its own, and the rows written for a mode are the representatives of that
\* mode; 0 s (X), 3 s (X), 10 s (Y) gives {X: 1, Y: 1}.
C6_PartitionedByMode ==
    /\ TallyDeros(<<<<Sec(0), "X">>, <<Sec(3), "X">>, <<Sec(10), "Y">>>>,
                  START_DATE, EmptyMap, <<>>).night_dero
         = Put(EmptyMap, START_DATE, Put(Put(EmptyMap, "X", 1), "Y", 1))
    /\ (pc = "tallied" /\ arg # <<>>) =>
        LET counts == ret.night_dero[START_DATE]
        IN  /\ DOMAIN counts = ModesIn(arg)
            /\ \A m \in ModesIn(arg) :
                 /\ counts[m] >= 1
                 /\ counts[m] = Len(cluster_events(ModeTimes(arg, m)))
                 /\ Len(RowsOfMode(ret.rows, m)) = counts[m]
            /\ Len(ret.rows) = SumOver(ModesIn(arg), counts)

C6_Witness ==
    /\ pc = "tallied"
    /\ Len(arg) = 2
    /\ arg[1][1] = arg[2][1]
    /\ arg[1][2] # arg[2][2]
    /\ Len(ret.rows) = 2
    /\ ret.night_dero[START_DATE]["X"] = 1
    /\ ret.night_dero[START_DATE]["Y"] = 1

-----------------------------------------------------------------------------
(* Properties of parse_schedule_poller (SpecSched) *)

MarkerIndices(lines) ==
    SelectSeq([i \in DOMAIN lines |-> i], LAMBDA i : lines[i].marker)

\* the lines i .. i+4 of the log that name a mode
ModeLines(lines, i) ==
    {j \in i..Min(i + 4, Len(lines)) : lines[j].mode # NoMode}

\* C7: the mode of the marker line at index i is the mode named by the
\* first of the lines i .. i+4 (as far as the log goes) that names one, and
\* UNKNOWN when none of them does; a mode named on line i+5 or later is
\* never used.
C7_ModeWindow ==
    (pc = "parsed schedule_poller" /\ ret.exc = "none") =>
        LET ix == MarkerIndices(arg)
        IN  /\ Len(ret.val) = Len(ix)
            /\ \A k \in DOMAIN ix :
                 /\ ret.val[k][1] = arg[ix[k]].tok
                 /\ ret.val[k][2] =
                      IF ModeLines(arg, ix[k]) = {} THEN "UNKNOWN"
                      ELSE arg[SetMin(ModeLines(arg, ix[k]))].mode

C7_Witness ==
    /\ pc = "parsed schedule_poller"
    /\ Len(arg) = 6
    /\ arg[1].marker
    /\ \A j \in 1..5 : arg[j].mode = NoMode
    /\ arg[6].mode = "X"
    /\ ret.exc = "none"
    /\ ret.val[1][2] = "UNKNOWN"

-----------------------------------------------------------------------------
(* Properties of parse_xyslides (SpecXY) *)

SpellsReset(w) == w \in {"reset", "RESET", "Reset"}

IsTimestamp(tok) == tok >= 0

\* C10: parse_xyslides raises nothing; it returns, in the order of the
\* log, one event for every line that contains "reset" in any letter case
\* and starts with a valid timestamp, and skips the lines that contain
\* "reset" but start with something else.
C10_ResetParserTolerant ==
    (pc = "parsed xyslides") =>
        /\ ret.exc = "none"
        /\ LET hits == SelectSeq(arg, LAMBDA l : SpellsReset(l.word)
                                                  /\ IsTimestamp(l.tok))
           IN  ret.val = [i \in DOMAIN hits |-> hits[i].tok]

C10_Witness ==
    /\ pc = "parsed xyslides"
    /\ Len(arg) = 2
    /\ arg[1] = XLine("RESET", BAD)
    /\ arg[2] = XLine("Reset", Sec(7))
    /\ ret = Return(<<Sec(7)>>)

-----------------------------------------------------------------------------
(* Properties of a run (Spec) *)

NumNights == Max(end - START_DATE + 1, 0)

\* the obs-log record of the night is absent: no page, or the lookup failed
RecordAbsent == r.fails \/ r.status # OK_STATUS

C9_FlagsFollowScienceCount ==
    /\ Len(no_log_days) = Len(low_sci_days)
    /\ \A x \in DOMAIN no_log_days : ~(no_log_days[x] /\ low_sci_days[x])
    /\ no_log_days # <<>> =>
         LET n == Len(no_log_days)
         IN  /\ RecordAbsent <=> (sci_count = None)
             /\ no_log_days[n] <=> RecordAbsent
             /\ low_sci_days[n] <=> (~RecordAbsent /\ sci_count < LOW_SCIENCE)
             /\ (~RecordAbsent /\ ~r.table) => (sci_count = 0 /\ low_sci_days[n])

FlagsChange ==
    no_log_days' # no_log_days \/ low_sci_days' # low_sci_days

TalliesChange ==
    \/ night_dero' # night_dero
    \/ night_reset' # night_reset
    \/ dero_rows' # dero_rows
    \/ xy_rows' # xy_rows

\* C9: the flag of a night follows from the science-frame count alone: no
\* record (no page or a failed lookup) gives NO_LOG, a count below 5 (0
\* included) gives LOW_YIELD, a count of 5 or more gives neither; a night
\* never has both flags; flags already given are never revised, and the
\* step that classifies a night leaves the tallies alone and the steps that
\* tally leave the flags alone.
C9_AnomalyFlag ==
    /\ []C9_FlagsFollowScienceCount
    /\ [][/\ FlagsChange => ~TalliesChange
          /\ \A x \in DOMAIN no_log_days :
               /\ no_log_days'[x] = no_log_days[x]
               /\ low_sci_days'[x] = low_sci_days[x]]_vars

C9_Witness ==
    /\ pc = "sched"
    /\ sci_count = LOW_SCIENCE
    /\ ~no_log_days[Len(no_log_days)]
    /\ ~low_sci_days[Len(low_sci_days)]
    /\ Len(no_log_days) = 2
    /\ low_sci_days[1]

\* C3 as stated: a derotation marker line with a malformed first token
\* never ends the run; the exception of the parser is turned into a zero
\* contribution of that file and the run goes on.
C3_MalformedTimestampDoesNotAbort ==
    (raised = "ValueError") => (pc \in {"xy", "obslog", "plot", "done"})

\* C8 as stated: once the run is over the aggregate has one entry per
\* night of the range, in ascending order, each with a reset count, a
\* derotation total, per-mode counts and a flag, and zero counts for the
\* nights without logs.
C8_OneAggregatePerNight ==
    (pc \in {"done", "crashed"}) =>
        /\ Len(dates) = NumNights
        /\ \A x \in DOMAIN dates : dates[x] = START_DATE + x - 1
        /\ Len(xy_counts) = NumNights
        /\ Len(bottom) = NumNights
        /\ Len(overlay) = NumNights
        /\ \A m \in DOMAIN mode_counts : Len(mode_counts[m]) = NumNights
        /\ \A x \in DOMAIN dates :
             /\ dates[x] \notin DOMAIN night_reset => xy_counts[x] = 0
             /\ dates[x] \notin DOMAIN night_dero => bottom[x] = 0

====
